---- MODULE Spec2Model ----
(***************************************************************************)
(* Model of the Focus Monitoring Engine of src/backend/backend.py:         *)
(* InputMonitor, FocusAnalyzer, AlertManager, FocusMonitoringSystem and    *)
(* the control-surface operations that act on them.                        *)
(*                                                                         *)
(* Threads of the program and how they appear here:                        *)
(*   - the evaluation loop (_monitoring_loop), one instance per start that *)
(*     spawned it, with its position lpc[k] and its local variables;       *)
(*   - the inbound listener (listen_for_snooze), one instance per start;   *)
(*   - control-surface request handlers (start, stop, respond, trigger),   *)
(*     with their position hpc[h];                                         *)
(*   - the capture callbacks of InputMonitor (key press, mouse click).     *)
(* A step of the model is a group of statements of one thread with no      *)
(* other thread's step in between.  The steps are cut where the claims     *)
(* look: between the read and the reset of the input counters, between     *)
(* the two operands of the loop's snooze test, between that test and       *)
(* create_alert, between create_alert and the assignment of current_alert, *)
(* between the two writes of a snooze, and inside each `+= 1`.             *)
(*                                                                         *)
(* Time is the wall clock in seconds.  Focus scores are in hundredths      *)
(* (0.6 is 60), sub-scores in tenths, so that the weights 0.4/0.3/0.3      *)
(* become 4/3/3 and every comparison of the code is exact.                 *)
(***************************************************************************)
EXTENDS Integers, Sequences, FiniteSets, TLC

(***************************************************************************)
(* Bounds of the model.                                                    *)
(***************************************************************************)
\* The clock of the engine specification stops at MaxTime.
MaxTime == 420
\* The clock of the lifecycle specification stops at MaxLifeTime.
MaxLifeTime == 180
\* The clock of the sampler specification stops at MaxInputTime.
MaxInputTime == 240
\* Number of start calls that may spawn threads (loop k and listener k).
MaxStarts == 2
\* Number of concurrent control-surface request handlers.
NumHandlers == 1
\* Number of control-surface requests made in a run of the engine.
MaxRequests == 2
\* Number of start/stop requests in a run of the lifecycle specification.
MaxLifeRequests == 3
\* Number of trigger/respond requests in a run of the alert specification.
MaxAlertRequests == 4
\* Number of connections the inbound listeners accept in a run of the engine.
MaxConnections == 2
\* The same in a run of the lifecycle specification.
MaxLifeConnections == 1
\* Number of capture events (key presses, clicks) delivered in a run.
MaxEvents == 2
\* Number of direct calls of send_to_watch in a run of the push specification.
MaxPushes == 2
\* Number of trigger/respond requests in a run of the push specification.
MaxPushRequests == 2
\* Number of requests (start, trigger, dismiss) in a run of the raise
\* specification.
MaxRaiseRequests == 3
\* Number of triggerAlert requests in a run of the create specification.
MaxCreateRequests == 2
\* Last instant of a run of the liveness specification: a snooze accepted
\* at 300 s has run out at the cycle of 660 s.
MaxLiveTime == 660
\* In a run of the liveness specification requests and connections arrive
\* before this instant only.
LiveQuiet == 300
\* Number of requests (start, respond SNOOZE) in a run of the liveness
\* specification.
MaxLiveRequests == 2
\* Number of connections the inbound listener accepts in such a run.
MaxLiveConnections == 1

(***************************************************************************)
(* Program constants.                                                      *)
(***************************************************************************)
\* timedelta(minutes=2), in seconds
Cooldown == 120
\* timedelta(minutes=5), in seconds: snooze duration and the loop's initial
\* back-dating of last_alert_time
SnoozeDuration == 300
\* time.sleep(5)
Period == 5
\* time.sleep(10)
Backoff == 10
\* focus_level < 0.6
FocusDrop == 60
\* focus_level > 0.8
FocusRecover == 80
\* SystemState.focus_level default 0.8, and the score with fewer than 5 samples
DefaultFocus == 80
\* len(self.analyzer.interactions) >= 5
MinSamples == 5
\* deque(maxlen=60)
HistoryCap == 60
\* len(self.interactions) > 10
CalibrateAfter == 10
\* intensity < 0.4
IntensitySplit == 40

VARIABLES
    now,                \* wall clock (time.time(), datetime.now()), seconds
    \* InputMonitor
    keystroke_count, mouse_distance, mouse_clicks,
    input_listeners,    \* number of capture listener pairs that are running
    input_current,      \* self.keyboard_listener / mouse_listener is a running pair
    kpc, k_tmp,         \* key-press callback: position, value loaded by +=
    mpc, m_tmp,         \* click callback: position, value loaded by +=
    \* FocusAnalyzer
    interactions, typing_baseline, mouse_baseline,
    \* AlertManager
    active_alerts, alert_queue,
    \* SystemState
    monitoring_active, snooze_feature_enabled, current_alert, focus_level,
    is_snoozed, snooze_until,
    \* FocusMonitoringSystem
    running,
    \* evaluation loop k
    lpc, last_alert_time, l_focus, l_time, l_sample, l_alert, wake,
    \* inbound listener k
    spc, port,          \* port: the listeners whose server socket is bound
    \* control-surface handler h
    hpc, h_arg, h_result,
    \* history (not program state): what the claims speak about
    keys_delivered, clicks_delivered, keys_drained, clicks_drained,
    raised,             \* <<k, t>>: loop k raised an alert in its cycle of time t
    stopped,            \* threads k that had been started when stop was called
    snoozed_at,         \* time the listener accepted its latest SNOOZE, until a
                        \* cycle with focus above 0.8 clears the snooze
    pushes,             \* the calls of send_to_watch so far: payload, state of the
                        \* device link, and how the call ended
    n_requests,         \* control-surface requests made so far
    n_connections       \* inbound connections accepted so far

inputVars == <<keystroke_count, mouse_distance, mouse_clicks, input_listeners,
               input_current, kpc, k_tmp, mpc, m_tmp>>
analyzerVars == <<interactions, typing_baseline, mouse_baseline>>
alertVars == <<active_alerts, alert_queue>>
stateVars == <<monitoring_active, snooze_feature_enabled, current_alert,
               focus_level, is_snoozed, snooze_until>>
loopVars == <<lpc, last_alert_time, l_focus, l_time, l_sample, l_alert, wake>>
listenVars == <<spc, port>>
handlerVars == <<hpc, h_arg, h_result>>
countVars == <<keys_delivered, clicks_delivered, keys_drained, clicks_drained>>
histVars == <<countVars, raised, pushes, stopped, snoozed_at, n_requests, n_connections>>
vars == <<now, inputVars, analyzerVars, alertVars, stateVars, running,
          loopVars, listenVars, handlerVars, histVars>>

Threads == 1..MaxStarts
Handlers == 1..NumHandlers

\* Optional[T]: None, or Some(x)
None == <<>>
Some(x) == <<x>>
Val(o) == o[1]

(***************************************************************************)
(* FocusAnalyzer                                                           *)
(***************************************************************************)
RECURSIVE SumKeystrokes(_)
SumKeystrokes(q) ==
    IF q = <<>> THEN 0 ELSE Head(q).keystroke_count + SumKeystrokes(Tail(q))

RECURSIVE SumMouseDist(_)
SumMouseDist(q) ==
    IF q = <<>> THEN 0 ELSE Head(q).mouse_movement_distance + SumMouseDist(Tail(q))

\* deque(maxlen=60).append: the oldest sample is evicted on overflow
DequeAppend(q, x) ==
    IF Len(q) >= HistoryCap THEN Append(Tail(q), x) ELSE Append(q, x)

\* statistics.mean over the whole history, kept exact as sum over count
Mean(sum, n) == [sum |-> sum, n |-> n]

\* An add_interaction that tests the baseline with `not` in place of
\* `is None`, so that a mean of 0 counts as no baseline; C17 is shown to
\* fail on it.
AddInteractionFalsy(q, tb, mb, x) ==
    LET q2 == DequeAppend(q, x) IN
    IF Len(q2) > CalibrateAfter /\ (tb = None \/ Val(tb).sum = 0)
    THEN <<q2, Some(Mean(SumKeystrokes(q2), Len(q2))),
               Some(Mean(SumMouseDist(q2), Len(q2)))>>
    ELSE <<q2, tb, mb>>

\* add_interaction: <<interactions', typing_baseline', mouse_baseline'>>
AddInteraction(q, tb, mb, x) ==
    LET q2 == DequeAppend(q, x) IN
    IF Len(q2) > CalibrateAfter /\ tb = None
    THEN <<q2, Some(Mean(SumKeystrokes(q2), Len(q2))),
               Some(Mean(SumMouseDist(q2), Len(q2)))>>
    ELSE <<q2, tb, mb>>

\* calculate_focus_score's last two lines: the weighted sum of the three
\* bucketed sub-scores (tenths), clamped to [0, 100]
Clamp(x) == IF x < 0 THEN 0 ELSE IF x > 100 THEN 100 ELSE x
WeightedScore(b) == Clamp(4 * b[1] + 3 * b[2] + 3 * b[3])

\* Sub-score buckets <<typing, mouse, activity>> the scoring step draws from.
\* The buckets are decided by the keyboard/mouse activity of the last five
\* samples, which is the environment's choice; these four are outcomes of
\* _analyze_typing_pattern, _analyze_mouse_pattern, _analyze_activity_level
\* that give 0.38, 0.60, 0.79 and 0.87.
ScoreInputs == {<<5, 5, 1>>, <<9, 5, 3>>, <<7, 8, 9>>, <<9, 8, 9>>}

(***************************************************************************)
(* AlertManager                                                            *)
(***************************************************************************)
ShortPattern == <<150, 100, 150>>
LongPattern == <<200, 100, 200, 100, 200>>

RECURSIVE SumSeq(_)
SumSeq(s) == IF s = <<>> THEN 0 ELSE Head(s) + SumSeq(Tail(s))

Message(type) ==
    IF type = "focus_drop" THEN "Focus dropping. Consider a short break."
    ELSE "Good time for a scheduled break."

\* f"alert_{int(time.time())}_{len(self.active_alerts)}"
AlertId(t, active) == <<t, Cardinality(DOMAIN active)>>

\* A create_alert that gives the short pattern at an intensity of 0.4 too;
\* C18 is shown to fail on it.
NewAlertInclusive(type, focus, t, active) ==
    LET intensity == 100 - focus
        pattern == IF intensity <= IntensitySplit THEN ShortPattern ELSE LongPattern
    IN [id |-> AlertId(t, active), type |-> type, message |-> Message(type),
        timestamp |-> t, intensity |-> intensity,
        duration_ms |-> SumSeq(pattern), pattern |-> pattern]

\* The Alert built by create_alert; focus and intensity are in hundredths
NewAlert(type, focus, t, active) ==
    LET intensity == 100 - focus
        pattern == IF intensity < IntensitySplit THEN ShortPattern ELSE LongPattern
    IN [id |-> AlertId(t, active), type |-> type, message |-> Message(type),
        timestamp |-> t, intensity |-> intensity,
        duration_ms |-> SumSeq(pattern), pattern |-> pattern]

\* self.active_alerts[alert_id] = alert
DictPut(d, key, v) == [i \in DOMAIN d \cup {key} |-> IF i = key THEN v ELSE d[i]]
\* A removal that empties the dictionary; C14 is shown to fail on it.
DictClear(d, key) == <<>>

\* del self.active_alerts[alert_id]
DictDel(d, key) == [i \in DOMAIN d \ {key} |-> d[i]]

\* create_alert's effect on the manager: <<alert, active_alerts', alert_queue'>>
CreateAlert(type, focus, t, active, queue) ==
    LET a == NewAlert(type, focus, t, active) IN
    <<a, DictPut(active, a.id, a), Append(queue, a)>>

Responses == {"snooze", "dismiss", "take_break"}

\* A handle_response without the test of line 242; C13 is shown to fail on
\* it.
HandleResponseUnchecked(active, id, response) ==
    IF response = "snooze" THEN <<"snoozed", active>>
    ELSE IF response = "dismiss"
    THEN <<"dismissed", [i \in DOMAIN active \ {id} |-> active[i]]>>
    ELSE <<"break_taken", [i \in DOMAIN active \ {id} |-> active[i]]>>

\* handle_response: <<result, active_alerts'>>
HandleResponse(active, id, response) ==
    IF id \notin DOMAIN active THEN <<"error: Alert not found", active>>
    ELSE IF response = "snooze" THEN <<"snoozed", active>>
    ELSE IF response = "dismiss" THEN <<"dismissed", DictDel(active, id)>>
    ELSE IF response = "take_break" THEN <<"break_taken", DictDel(active, id)>>
    ELSE <<"error: Invalid response", active>>

(***************************************************************************)
(* Initial state: the module-level `system = FocusMonitoringSystem()`.     *)
(***************************************************************************)
Init ==
    /\ now = 0
    /\ keystroke_count = 0 /\ mouse_distance = 0 /\ mouse_clicks = 0
    /\ input_listeners = 0 /\ input_current = FALSE
    /\ kpc = "idle" /\ k_tmp = 0 /\ mpc = "idle" /\ m_tmp = 0
    /\ interactions = <<>> /\ typing_baseline = None /\ mouse_baseline = None
    /\ active_alerts = <<>> /\ alert_queue = <<>>
    /\ monitoring_active = FALSE /\ snooze_feature_enabled = TRUE
    /\ current_alert = None /\ focus_level = DefaultFocus
    /\ is_snoozed = FALSE /\ snooze_until = None
    /\ running = FALSE
    /\ lpc = [k \in Threads |-> "unborn"]
    /\ last_alert_time = [k \in Threads |-> 0]
    /\ l_focus = [k \in Threads |-> None]
    /\ l_time = [k \in Threads |-> None]
    /\ l_sample = [k \in Threads |-> None]
    /\ l_alert = [k \in Threads |-> None]
    /\ wake = [k \in Threads |-> 0]
    /\ spc = [k \in Threads |-> "unborn"]
    /\ port = {}
    /\ hpc = [h \in Handlers |-> "idle"]
    /\ h_arg = [h \in Handlers |-> None]
    /\ h_result = [h \in Handlers |-> "none"]
    /\ keys_delivered = 0 /\ clicks_delivered = 0
    /\ keys_drained = 0 /\ clicks_drained = 0
    /\ raised = {}
    /\ pushes = <<>>
    /\ stopped = {}
    /\ snoozed_at = None
    /\ n_requests = 0
    /\ n_connections = 0

(***************************************************************************)
(* The clock.  A step of a thread takes no time: the clock advances only   *)
(* when every thread is blocked (asleep before its wake-up time, waiting   *)
(* in accept, or not running), and a sleeper whose time has come wakes     *)
(* before the clock moves on.  The clock is observed at the instants that  *)
(* TickSteps spans; a sleep of 5 or 10 seconds that starts at one instant  *)
(* is over at the next.                                                    *)
(***************************************************************************)
TickSteps == {60}

LoopBlocked(k) ==
    \/ lpc[k] \in {"unborn", "done"}
    \/ lpc[k] \in {"sleep", "backoff"} /\ now < wake[k]

ListenerBlocked(k) == spc[k] \in {"unborn", "accept", "done", "crashed"}

Tick(max) ==
    /\ \A k \in Threads : LoopBlocked(k) /\ ListenerBlocked(k)
    /\ \A h \in Handlers : hpc[h] = "idle"
    /\ kpc = "idle" /\ mpc = "idle"
    /\ \E d \in TickSteps : now + d <= max /\ now' = now + d
    /\ UNCHANGED <<inputVars, analyzerVars, alertVars, stateVars, running,
                   loopVars, listenVars, handlerVars, histVars>>

(***************************************************************************)
(* The evaluation loop, FocusMonitoringSystem._monitoring_loop.            *)
(***************************************************************************)
\* The cycle's locals are dead outside the cycle.
ClearLocals(k) ==
    /\ l_focus' = [l_focus EXCEPT ![k] = None]
    /\ l_time' = [l_time EXCEPT ![k] = None]
    /\ l_sample' = [l_sample EXCEPT ![k] = None]
    /\ l_alert' = [l_alert EXCEPT ![k] = None]

\* A loop without the handler of line 332 (an exception ends the thread);
\* C6 is shown to fail on it.
FailExit(k) ==
    /\ lpc' = [lpc EXCEPT ![k] = "done"]
    /\ wake' = wake
    /\ ClearLocals(k)

\* except Exception: time.sleep(10)
Fail(k) ==
    /\ lpc' = [lpc EXCEPT ![k] = "backoff"]
    /\ wake' = [wake EXCEPT ![k] = now + Backoff]
    /\ ClearLocals(k)

\* time.sleep(5), the normal end of a cycle
Sleep(k) ==
    /\ lpc' = [lpc EXCEPT ![k] = "sleep"]
    /\ wake' = [wake EXCEPT ![k] = now + Period]
    /\ ClearLocals(k)

\* while self.running: the cycle is entered, or the loop ends
Enter(k) == lpc' = [lpc EXCEPT ![k] = IF running THEN "drain_read" ELSE "done"]

\* The loop's first statement,
\* last_alert_time = datetime.now() - timedelta(minutes=5), and the first
\* test of `while self.running`
LoopInit(k) ==
    /\ lpc[k] = "init"
    /\ last_alert_time' = [last_alert_time EXCEPT ![k] = now - SnoozeDuration]
    /\ Enter(k)
    /\ UNCHANGED <<now, inputVars, analyzerVars, alertVars, stateVars, running,
                   l_focus, l_time, l_sample, l_alert, wake,
                   listenVars, handlerVars, histVars>>

\* time.sleep returns and `while self.running` is tested again
LoopWake(k) ==
    /\ lpc[k] \in {"sleep", "backoff"}
    /\ now >= wake[k]
    /\ Enter(k)
    /\ wake' = [wake EXCEPT ![k] = 0]
    /\ UNCHANGED <<now, inputVars, analyzerVars, alertVars, stateVars, running,
                   last_alert_time, l_focus, l_time, l_sample, l_alert,
                   listenVars, handlerVars, histVars>>

\* get_and_reset_metrics, first half: the UserInteraction is built from the
\* counters
DrainRead(k) ==
    /\ lpc[k] = "drain_read"
    /\ l_sample' = [l_sample EXCEPT ![k] =
            Some([keystroke_count |-> keystroke_count,
                  mouse_movement_distance |-> mouse_distance,
                  mouse_click_count |-> mouse_clicks])]
    /\ lpc' = [lpc EXCEPT ![k] = "drain_reset"]
    /\ UNCHANGED <<now, inputVars, analyzerVars, alertVars, stateVars, running,
                   last_alert_time, l_focus, l_time, l_alert, wake,
                   listenVars, handlerVars, histVars>>

\* A cooldown that is over at 120 seconds already (>= for >); C1 is shown
\* to fail on it.
CooldownOverInclusive(t, last) == t - last >= Cooldown

\* The cooldown test: current_time - last_alert_time > timedelta(minutes=2)
CooldownOver(t, last) == t - last > Cooldown

\* focus_level < 0.6
IsFocusDrop(f) == f < FocusDrop

\* A recovery test at the alert threshold (0.6 for 0.8); C10 is shown to
\* fail on it.
IsAboveDrop(f) == f > FocusDrop

\* focus_level > 0.8
IsRecovered(f) == f > FocusRecover

\* Where the cycle goes once the score f is known at time t: the tests on
\* the loop's own variables (focus_level < 0.6, the cooldown,
\* focus_level > 0.8) need no further step
AfterScore(k, f, t) ==
    IF IsFocusDrop(f) /\ CooldownOver(t, last_alert_time[k]) THEN "chk_snoozed"
    ELSE IF IsRecovered(f) THEN "recover"
    ELSE "sleep"

\* get_and_reset_metrics, second half (the counters are zeroed and the
\* sample is returned); add_interaction; then, with five samples or more,
\* calculate_focus_score and the publication of the score.  A cycle with
\* nothing more to do goes to time.sleep(5).
LoopAnalyze(k) ==
    /\ lpc[k] = "drain_reset"
    /\ keystroke_count' = 0
    /\ mouse_distance' = 0
    /\ mouse_clicks' = 0
    /\ keys_drained' = keys_drained + Val(l_sample[k]).keystroke_count
    /\ clicks_drained' = clicks_drained + Val(l_sample[k]).mouse_click_count
    /\ LET r == AddInteraction(interactions, typing_baseline, mouse_baseline,
                               Val(l_sample[k]))
       IN /\ interactions' = r[1]
          /\ typing_baseline' = r[2]
          /\ mouse_baseline' = r[3]
          /\ IF Len(r[1]) >= MinSamples
             THEN \E b \in ScoreInputs :
                    LET f == WeightedScore(b) IN
                    /\ focus_level' = f
                    /\ IF AfterScore(k, f, now) = "sleep"
                       THEN Sleep(k)
                       ELSE /\ lpc' = [lpc EXCEPT ![k] = AfterScore(k, f, now)]
                            /\ l_focus' = [l_focus EXCEPT ![k] = Some(f)]
                            /\ l_time' = [l_time EXCEPT ![k] =
                                    IF IsFocusDrop(f) THEN Some(now) ELSE None]
                            /\ l_sample' = [l_sample EXCEPT ![k] = None]
                            /\ UNCHANGED <<l_alert, wake>>
             ELSE /\ Sleep(k)
                  /\ UNCHANGED focus_level
    /\ UNCHANGED <<now, input_listeners, input_current, kpc, k_tmp, mpc, m_tmp,
                   alertVars, monitoring_active,
                   snooze_feature_enabled, current_alert, is_snoozed, snooze_until,
                   running, last_alert_time, listenVars, handlerVars,
                   keys_delivered, clicks_delivered, raised, pushes, stopped, snoozed_at,
                   n_requests, n_connections>>

\* `not self.state.is_snoozed or ...`: the first operand is read
LoopChkSnoozed(k) ==
    /\ lpc[k] = "chk_snoozed"
    /\ lpc' = [lpc EXCEPT ![k] = IF is_snoozed THEN "chk_until" ELSE "create"]
    /\ UNCHANGED <<now, inputVars, analyzerVars, alertVars, stateVars, running,
                   last_alert_time, l_focus, l_time, l_sample, l_alert, wake,
                   listenVars, handlerVars, histVars>>

\* A deadline test that never lets a snoozed engine through; C21 is shown to
\* fail on it.
SnoozeNeverExpires(t, until) == FALSE

\* current_time > self.state.snooze_until
SnoozeExpired(t, until) == t > until

\* `... or current_time > self.state.snooze_until`: the second operand is
\* read; comparing a datetime with None raises TypeError.  With the alert
\* suppressed the cycle is over (the score is below 0.6, so not above 0.8).
LoopChkUntil(k) ==
    /\ lpc[k] = "chk_until"
    /\ IF snooze_until = None
       THEN Fail(k)
       ELSE IF SnoozeExpired(Val(l_time[k]), Val(snooze_until))
       THEN /\ lpc' = [lpc EXCEPT ![k] = "create"]
            /\ UNCHANGED <<l_focus, l_time, l_sample, l_alert, wake>>
       ELSE Sleep(k)
    /\ UNCHANGED <<now, inputVars, analyzerVars, alertVars, stateVars, running,
                   last_alert_time, listenVars, handlerVars, histVars>>

\* alert = self.alert_manager.create_alert(AlertType.FOCUS_DROP, focus_level)
LoopCreate(k) ==
    /\ lpc[k] = "create"
    /\ LET r == CreateAlert("focus_drop", Val(l_focus[k]), now,
                            active_alerts, alert_queue)
       IN /\ l_alert' = [l_alert EXCEPT ![k] = Some(r[1])]
          /\ active_alerts' = r[2]
          /\ alert_queue' = r[3]
    /\ raised' = raised \cup {<<k, Val(l_time[k])>>}
    /\ lpc' = [lpc EXCEPT ![k] = "assign"]
    /\ UNCHANGED <<now, inputVars, analyzerVars, stateVars, running,
                   last_alert_time, l_focus, l_time, l_sample, wake,
                   listenVars, handlerVars, countVars, pushes, stopped, snoozed_at,
                   n_requests, n_connections>>

\* self.state.current_alert = alert; last_alert_time = current_time;
\* self.state.is_snoozed = False; then
\* self.send_to_watch(load=95, vibrate=True,
\*                    snooze=get_settings()["snooze_feature_enabled"]),
\* whose argument is evaluated first.  get_settings is the HTTP view: it
\* calls jsonify, which needs an application context the loop's thread does
\* not have (RuntimeError), and its result is a Response, which cannot be
\* subscripted (TypeError).  Either way the statement raises before
\* send_to_watch is entered, and the loop's handler takes over.
LoopAssign(k) ==
    /\ lpc[k] = "assign"
    /\ current_alert' = l_alert[k]
    /\ last_alert_time' = [last_alert_time EXCEPT ![k] = Val(l_time[k])]
    /\ is_snoozed' = FALSE
    /\ Fail(k)
    /\ UNCHANGED <<now, inputVars, analyzerVars, alertVars, monitoring_active,
                   snooze_feature_enabled, focus_level, snooze_until, running,
                   listenVars, handlerVars, histVars>>

\* if focus_level > 0.8: self.state.is_snoozed = False; then time.sleep(5)
LoopRecover(k) ==
    /\ lpc[k] = "recover"
    /\ is_snoozed' = IF IsRecovered(Val(l_focus[k])) THEN FALSE ELSE is_snoozed
    /\ snoozed_at' = IF IsRecovered(Val(l_focus[k])) THEN None ELSE snoozed_at
    /\ Sleep(k)
    /\ UNCHANGED <<now, inputVars, analyzerVars, alertVars, monitoring_active,
                   snooze_feature_enabled, current_alert, focus_level, snooze_until,
                   running, last_alert_time, listenVars, handlerVars,
                   countVars, raised, pushes, stopped, n_requests, n_connections>>

Loop(k) ==
    \/ LoopInit(k) \/ LoopWake(k) \/ DrainRead(k) \/ LoopAnalyze(k)
    \/ LoopChkSnoozed(k) \/ LoopChkUntil(k) \/ LoopCreate(k)
    \/ LoopAssign(k) \/ LoopRecover(k)

(***************************************************************************)
(* The device push, FocusMonitoringSystem.send_to_watch.                   *)
(***************************************************************************)
\* What the device link does with a push: the connection and the send
\* succeed, connect is refused, connect times out (settimeout(2)), or the
\* connection is reset under sendall.
LinkStates == {"up", "refused", "timeout", "reset"}

\* json.dumps({"load": load, "vibrate": vibrate, "snooze": snooze,
\*             "snoozeTime": snoozeTime})
Payload(load, vibrate, snooze, snoozeTime) ==
    [load |-> load, vibrate |-> vibrate, snooze |-> snooze,
     snoozeTime |-> snoozeTime]

\* A send_to_watch that lets the failure of the link reach its caller; C15
\* is shown to fail on it.
PushEndUncaught(link) == IF link = "up" THEN "returned" ELSE "raised"

\* How send_to_watch ends for its caller: `except Exception as e: print(...)`
\* covers the whole body, so it returns None whatever the link did.
PushEnd(link) == "returned"

\* send_to_watch(load, vibrate, snooze, snoozeTime): the payload reaches the
\* device when the link is up; nothing of the engine is written.
SendToWatch(load, vibrate, snooze, snoozeTime, link) ==
    pushes' = Append(pushes,
                     [payload |-> Payload(load, vibrate, snooze, snoozeTime),
                      link |-> link, end |-> PushEnd(link)])

\* The arguments direct calls are made with: <<load, vibrate, snooze>>;
\* snoozeTime keeps its default None.
PushInputs == {<<95, TRUE, TRUE>>, <<95, TRUE, FALSE>>, <<40, FALSE, TRUE>>}

\* A call of system.send_to_watch from outside the loop.
PushCall(in, link) ==
    /\ Len(pushes) < MaxPushes
    /\ SendToWatch(in[1], in[2], in[3], None, link)
    /\ UNCHANGED <<now, inputVars, analyzerVars, alertVars, stateVars, running,
                   loopVars, listenVars, handlerVars, countVars, raised,
                   stopped, snoozed_at, n_requests, n_connections>>

(***************************************************************************)
(* The inbound listener, FocusMonitoringSystem.listen_for_snooze.          *)
(***************************************************************************)
\* A received text is a sequence of tokens: the word SNOOZE, other words,
\* and the whitespace characters that str.strip removes.
Whitespace == {" ", "\n"}

RECURSIVE LStrip(_)
LStrip(m) ==
    IF m # <<>> /\ Head(m) \in Whitespace THEN LStrip(Tail(m)) ELSE m

RECURSIVE RStrip(_)
RStrip(m) ==
    IF m # <<>> /\ m[Len(m)] \in Whitespace
    THEN RStrip(SubSeq(m, 1, Len(m) - 1)) ELSE m

\* client.recv(1024).decode('utf-8').strip()
Strip(m) == RStrip(LStrip(m))

\* A test that accepts any text holding the word SNOOZE; C9 is shown to
\* fail on it.
ContainsSnooze(m) == \E i \in 1..Len(m) : m[i] = "SNOOZE"

\* msg == "SNOOZE"
IsSnoozeCommand(m) == Strip(m) = <<"SNOOZE">>

Payloads ==
    {<<"SNOOZE">>, <<" ", "SNOOZE", "\n">>,
     <<>>, <<"snooze">>, <<"SNOOZE", " ", "SNOOZE">>}

\* server.bind(('0.0.0.0', LISTENER_PORT)); server.listen(1).  With the port
\* held by another listener of this process the bind either fails (the
\* exception leaves the function through `finally: server.close()`) or, where
\* SO_REUSEADDR lets a second socket share a listening port, succeeds.
ListenerBind(k) ==
    /\ spc[k] = "bind"
    /\ \/ /\ port' = port \cup {k}
          /\ spc' = [spc EXCEPT ![k] = "test"]
       \/ /\ port # {}
          /\ port' = port
          /\ spc' = [spc EXCEPT ![k] = "crashed"]
    /\ UNCHANGED <<now, inputVars, analyzerVars, alertVars, stateVars, running,
                   loopVars, handlerVars, histVars>>

\* while self.running: ... finally: server.close()
Poll(k) ==
    IF running
    THEN spc' = [spc EXCEPT ![k] = "accept"] /\ port' = port
    ELSE spc' = [spc EXCEPT ![k] = "done"] /\ port' = port \ {k}

\* `while self.running` is tested after the bind and after a connection
ListenerTest(k) ==
    /\ spc[k] = "test"
    /\ Poll(k)
    /\ UNCHANGED <<now, inputVars, analyzerVars, alertVars, stateVars, running,
                   loopVars, handlerVars, histVars>>

\* server.accept() times out after 1.0 s: continue, and `while self.running`
\* is tested
ListenerTimeout(k) ==
    /\ spc[k] = "accept"
    /\ Poll(k)
    /\ UNCHANGED <<now, inputVars, analyzerVars, alertVars, stateVars, running,
                   loopVars, handlerVars, histVars>>

\* A connection is accepted and one text is read.  On the SNOOZE command:
\* self.state.is_snoozed = True.  Anything else: client.close().
ListenerRecv(k, m) ==
    /\ spc[k] = "accept"
    /\ n_connections' = n_connections + 1
    /\ IF IsSnoozeCommand(m)
       THEN /\ is_snoozed' = TRUE
            /\ snoozed_at' = Some(now)
            /\ spc' = [spc EXCEPT ![k] = "set_until"]
       ELSE /\ is_snoozed' = is_snoozed
            /\ snoozed_at' = snoozed_at
            /\ spc' = [spc EXCEPT ![k] = "test"]
    /\ UNCHANGED <<now, inputVars, analyzerVars, alertVars, monitoring_active,
                   snooze_feature_enabled, current_alert, focus_level, snooze_until,
                   running, loopVars, port, handlerVars, countVars, raised, pushes,
                   stopped, n_requests>>

\* self.state.snooze_until = datetime.now() + timedelta(minutes=5);
\* if self.state.current_alert: handle_response(current_alert.id, SNOOZE);
\* client.close()
ListenerSetUntil(k) ==
    /\ spc[k] = "set_until"
    /\ snooze_until' = Some(now + SnoozeDuration)
    /\ active_alerts' =
         IF current_alert # None
         THEN HandleResponse(active_alerts, Val(current_alert).id, "snooze")[2]
         ELSE active_alerts
    /\ spc' = [spc EXCEPT ![k] = "test"]
    /\ UNCHANGED <<now, inputVars, analyzerVars, alert_queue, monitoring_active,
                   snooze_feature_enabled, current_alert, focus_level, is_snoozed,
                   running, loopVars, port, handlerVars, histVars>>

\* The run may still receive a connection.
ConnBudget(max) == n_connections < max

Listener(k, max) ==
    \/ ListenerBind(k) \/ ListenerTest(k) \/ ListenerTimeout(k)
    \/ (ConnBudget(max) /\ \E m \in Payloads : ListenerRecv(k, m))
    \/ ListenerSetUntil(k)

(***************************************************************************)
(* Control-surface operations (the HTTP views and the methods they call).  *)
(***************************************************************************)
\* A request arrives at handler h.
Request(h) ==
    /\ hpc[h] = "idle"
    /\ n_requests' = n_requests + 1

\* The run may still make a request.
Budget(max) == n_requests < max

Return(h, result) ==
    /\ hpc' = [hpc EXCEPT ![h] = "idle"]
    /\ h_arg' = [h_arg EXCEPT ![h] = None]
    /\ h_result' = [h_result EXCEPT ![h] = result]

Unborn == {k \in Threads : lpc[k] = "unborn"}
NextThread == CHOOSE k \in Unborn : \A j \in Unborn : k <= j

\* A start without the test of monitoring_active; C8 is shown to fail on it.
StartUnchecked(h) ==
    /\ Request(h)
    /\ Unborn # {}
    /\ hpc' = [hpc EXCEPT ![h] = "start"]
    /\ UNCHANGED <<h_arg, h_result>>
    /\ UNCHANGED <<now, inputVars, analyzerVars, alertVars, stateVars, running,
                   loopVars, listenVars, countVars, raised, pushes, stopped, snoozed_at,
                   n_connections>>

\* start_monitoring: if self.state.monitoring_active: return already_running
StartCheck(h) ==
    /\ Request(h)
    /\ IF monitoring_active
       THEN Return(h, "already_running")
       ELSE /\ Unborn # {}
            /\ hpc' = [hpc EXCEPT ![h] = "start"]
            /\ UNCHANGED <<h_arg, h_result>>
    /\ UNCHANGED <<now, inputVars, analyzerVars, alertVars, stateVars, running,
                   loopVars, listenVars, countVars, raised, pushes, stopped, snoozed_at,
                   n_connections>>

\* start_monitoring, the rest: the sampler, the flags, the listener thread
\* and the loop thread are started
StartSpawn(h) ==
    /\ hpc[h] = "start"
    /\ Unborn # {}
    /\ input_listeners' = input_listeners + 1
    /\ input_current' = TRUE
    /\ monitoring_active' = TRUE
    /\ running' = TRUE
    /\ spc' = [spc EXCEPT ![NextThread] = "bind"]
    /\ lpc' = [lpc EXCEPT ![NextThread] = "init"]
    /\ Return(h, "started")
    /\ UNCHANGED <<now, keystroke_count, mouse_distance, mouse_clicks,
                   kpc, k_tmp, mpc, m_tmp, analyzerVars, alertVars,
                   snooze_feature_enabled, current_alert, focus_level,
                   is_snoozed, snooze_until,
                   last_alert_time, l_focus, l_time, l_sample, l_alert, wake,
                   port, histVars>>

\* stop_monitoring.  The join(timeout=2) that ends it changes nothing.
Stop(h) ==
    /\ Request(h)
    /\ running' = FALSE
    /\ monitoring_active' = FALSE
    /\ input_listeners' = IF input_current THEN input_listeners - 1
                          ELSE input_listeners
    /\ input_current' = FALSE
    /\ stopped' = stopped \cup {k \in Threads : lpc[k] # "unborn"}
    /\ Return(h, "stopped")
    /\ UNCHANGED <<now, keystroke_count, mouse_distance, mouse_clicks,
                   kpc, k_tmp, mpc, m_tmp, analyzerVars, alertVars,
                   snooze_feature_enabled, current_alert, focus_level,
                   is_snoozed, snooze_until, loopVars, listenVars,
                   countVars, raised, pushes, snoozed_at, n_connections>>

\* Alert ids a caller may name: those of the alerts created so far, and one
\* that was never issued.
UnknownId == <<0, 99>>
KnownIds == {alert_queue[i].id : i \in 1..Len(alert_queue)} \cup {UnknownId}

\* The response kinds of a request: UserResponse's values, and the default
\* 'ignore', which UserResponse(...) rejects with ValueError.
RequestResponses == Responses \cup {"ignore"}

\* respond_to_alert up to its first write: UserResponse(response_type);
\* on SNOOZE system.state.is_snoozed = True; otherwise handle_response
RespondBegin(h, id, r) ==
    /\ Request(h)
    /\ IF r \notin Responses
       THEN /\ Return(h, "error: Invalid response type")
            /\ UNCHANGED <<is_snoozed, active_alerts>>
       ELSE IF r = "snooze"
       THEN /\ is_snoozed' = TRUE
            /\ hpc' = [hpc EXCEPT ![h] = "resp_until"]
            /\ h_arg' = [h_arg EXCEPT ![h] = Some(id)]
            /\ UNCHANGED <<h_result, active_alerts>>
       ELSE /\ Return(h, HandleResponse(active_alerts, id, r)[1])
            /\ active_alerts' = HandleResponse(active_alerts, id, r)[2]
            /\ UNCHANGED is_snoozed
    /\ UNCHANGED <<now, inputVars, analyzerVars, alert_queue, monitoring_active,
                   snooze_feature_enabled, current_alert, focus_level, snooze_until,
                   running, loopVars, listenVars, countVars, raised, pushes, stopped, snoozed_at,
                   n_connections>>

\* system.state.snooze_until = datetime.now() + timedelta(minutes=5)
RespondSetUntil(h) ==
    /\ hpc[h] = "resp_until"
    /\ snooze_until' = Some(now + SnoozeDuration)
    /\ hpc' = [hpc EXCEPT ![h] = "resp_handle"]
    /\ UNCHANGED <<now, inputVars, analyzerVars, alertVars, monitoring_active,
                   snooze_feature_enabled, current_alert, focus_level, is_snoozed,
                   running, loopVars, listenVars, h_arg, h_result, histVars>>

\* result = system.alert_manager.handle_response(alert_id, response)
RespondHandle(h) ==
    /\ hpc[h] = "resp_handle"
    /\ Return(h, HandleResponse(active_alerts, Val(h_arg[h]), "snooze")[1])
    /\ active_alerts' = HandleResponse(active_alerts, Val(h_arg[h]), "snooze")[2]
    /\ UNCHANGED <<now, inputVars, analyzerVars, alert_queue, stateVars, running,
                   loopVars, listenVars, histVars>>

\* The trigger requests: an alert kind (AlertType's values, and one that
\* AlertType(...) rejects with ValueError) and a focus_level (default 0.3)
TriggerInputs ==
    {<<"focus_drop", 30>>, <<"break_suggestion", 65>>, <<"other", 30>>}

\* wizard_trigger_alert up to create_alert
TriggerBegin(h, type, focus) ==
    /\ Request(h)
    /\ IF type \notin {"focus_drop", "break_suggestion"}
       THEN /\ Return(h, "error: Invalid alert type")
            /\ UNCHANGED alertVars
       ELSE /\ LET r == CreateAlert(type, focus, now, active_alerts, alert_queue)
               IN /\ active_alerts' = r[2]
                  /\ alert_queue' = r[3]
                  /\ h_arg' = [h_arg EXCEPT ![h] = Some(r[1])]
            /\ hpc' = [hpc EXCEPT ![h] = "trig_assign"]
            /\ UNCHANGED h_result
    /\ UNCHANGED <<now, inputVars, analyzerVars, stateVars, running,
                   loopVars, listenVars, countVars, raised, pushes, stopped, snoozed_at,
                   n_connections>>

\* system.state.current_alert = alert
TriggerAssign(h) ==
    /\ hpc[h] = "trig_assign"
    /\ current_alert' = h_arg[h]
    /\ Return(h, "alert_triggered")
    /\ UNCHANGED <<now, inputVars, analyzerVars, alertVars, monitoring_active,
                   snooze_feature_enabled, focus_level, is_snoozed, snooze_until,
                   running, loopVars, listenVars, histVars>>

\* The requests a handler may receive, and the steps that finish them.
LifeRequest(h) == StartCheck(h) \/ Stop(h)

AlertRequest(h) ==
    \/ (\E id \in KnownIds, r \in RequestResponses : RespondBegin(h, id, r))
    \/ (\E in \in TriggerInputs : TriggerBegin(h, in[1], in[2]))

HandlerStep(h) ==
    \/ StartSpawn(h) \/ RespondSetUntil(h) \/ RespondHandle(h) \/ TriggerAssign(h)

(***************************************************************************)
(* The capture callbacks of InputMonitor (pynput's listener threads).      *)
(* `self.keystroke_count += 1` loads the attribute, adds, and stores it.   *)
(***************************************************************************)
EventBudget == keys_delivered + clicks_delivered < MaxEvents

\* _on_key_press is called: self.keystroke_count is loaded
KeyPressLoad ==
    /\ kpc = "idle"
    /\ input_listeners > 0
    /\ EventBudget
    /\ k_tmp' = keystroke_count
    /\ kpc' = "store"
    /\ keys_delivered' = keys_delivered + 1
    /\ UNCHANGED <<now, keystroke_count, mouse_distance, mouse_clicks,
                   input_listeners, input_current, mpc, m_tmp,
                   analyzerVars, alertVars, stateVars, running,
                   loopVars, listenVars, handlerVars,
                   clicks_delivered, keys_drained, clicks_drained,
                   raised, pushes, stopped, snoozed_at, n_requests, n_connections>>

\* _on_key_press: the incremented value is stored
KeyPressStore ==
    /\ kpc = "store"
    /\ keystroke_count' = k_tmp + 1
    /\ kpc' = "idle"
    /\ k_tmp' = 0
    /\ UNCHANGED <<now, mouse_distance, mouse_clicks,
                   input_listeners, input_current, mpc, m_tmp,
                   analyzerVars, alertVars, stateVars, running,
                   loopVars, listenVars, handlerVars, histVars>>

\* _on_mouse_click(x, y, button, pressed) is called: if pressed,
\* self.mouse_clicks is loaded; a release changes nothing
ClickLoad(pressed) ==
    /\ mpc = "idle"
    /\ input_listeners > 0
    /\ EventBudget
    /\ IF pressed
       THEN /\ m_tmp' = mouse_clicks
            /\ mpc' = "store"
            /\ clicks_delivered' = clicks_delivered + 1
       ELSE UNCHANGED <<m_tmp, mpc, clicks_delivered>>
    /\ UNCHANGED <<now, keystroke_count, mouse_distance, mouse_clicks,
                   input_listeners, input_current, kpc, k_tmp,
                   analyzerVars, alertVars, stateVars, running,
                   loopVars, listenVars, handlerVars,
                   keys_delivered, keys_drained, clicks_drained,
                   raised, pushes, stopped, snoozed_at, n_requests, n_connections>>

\* _on_mouse_click: the incremented value is stored
ClickStore ==
    /\ mpc = "store"
    /\ mouse_clicks' = m_tmp + 1
    /\ mpc' = "idle"
    /\ m_tmp' = 0
    /\ UNCHANGED <<now, keystroke_count, mouse_distance,
                   input_listeners, input_current, kpc, k_tmp,
                   analyzerVars, alertVars, stateVars, running,
                   loopVars, listenVars, handlerVars, histVars>>

Capture ==
    \/ KeyPressLoad \/ KeyPressStore
    \/ (\E pressed \in BOOLEAN : ClickLoad(pressed)) \/ ClickStore

(***************************************************************************)
(* Specifications.                                                         *)
(***************************************************************************)
\* The engine: the loops, the listeners and the control surface, with
\* MaxRequests requests of any kind and MaxConnections connections.
Next ==
    \/ Tick(MaxTime)
    \/ \E k \in Threads : Loop(k)
    \/ \E k \in Threads : Listener(k, MaxConnections)
    \/ \E h \in Handlers : Budget(MaxRequests) /\ (LifeRequest(h) \/ AlertRequest(h))
    \/ \E h \in Handlers : HandlerStep(h)

Spec == Init /\ [][Next]_vars

\* The lifecycle: the loops and the listeners under MaxLifeRequests start
\* and stop requests.
NextLife ==
    \/ Tick(MaxLifeTime)
    \/ \E k \in Threads : Loop(k)
    \/ \E k \in Threads : Listener(k, MaxLifeConnections)
    \/ \E h \in Handlers : Budget(MaxLifeRequests) /\ LifeRequest(h)
    \/ \E h \in Handlers : StartSpawn(h)

SpecLife == Init /\ [][NextLife]_vars

\* The alert manager under MaxAlertRequests trigger and respond requests.
NextAlerts ==
    \/ Tick(MaxTime)
    \/ \E h \in Handlers : Budget(MaxAlertRequests) /\ AlertRequest(h)
    \/ \E h \in Handlers :
          RespondSetUntil(h) \/ RespondHandle(h) \/ TriggerAssign(h)

SpecAlerts == Init /\ [][NextAlerts]_vars

\* The sampler: one started engine, its loop and listener, and the capture
\* callbacks.
NextInput ==
    \/ Tick(MaxInputTime)
    \/ \E k \in Threads : Loop(k)
    \/ \E k \in Threads : Listener(k, MaxLifeConnections)
    \/ \E h \in Handlers : Budget(1) /\ StartCheck(h)
    \/ \E h \in Handlers : StartSpawn(h)
    \/ Capture

SpecInput == Init /\ [][NextInput]_vars

\* The requests of the raise specification: start, a trigger with the
\* request's defaults changed to a break suggestion at 0.65, and DISMISS.
RaiseRequest(h) ==
    \/ StartCheck(h)
    \/ TriggerBegin(h, "break_suggestion", 65)
    \/ (\E id \in KnownIds : RespondBegin(h, id, "dismiss"))

\* The raising loop next to the alert manager's other callers: one engine,
\* its loop and listener, and MaxRaiseRequests requests.
NextRaise ==
    \/ Tick(MaxTime)
    \/ \E k \in Threads : Loop(k)
    \/ \E k \in Threads : Listener(k, MaxLifeConnections)
    \/ \E h \in Handlers : Budget(MaxRaiseRequests) /\ RaiseRequest(h)
    \/ \E h \in Handlers : StartSpawn(h) \/ TriggerAssign(h)

SpecRaise == Init /\ [][NextRaise]_vars

\* The device push called directly, next to MaxPushRequests trigger and
\* respond requests.
\* The samples add_interaction is called with on its own: an idle window and
\* two windows of activity.
SampleInputs ==
    { [keystroke_count |-> 0, mouse_movement_distance |-> 0,
       mouse_click_count |-> 0],
      [keystroke_count |-> 6, mouse_movement_distance |-> 4,
       mouse_click_count |-> 1],
      [keystroke_count |-> 13, mouse_movement_distance |-> 30,
       mouse_click_count |-> 0] }

\* The histories of samples that are explored: a run of one sample followed
\* by a run of another one.
SampleAllowed(q, x) ==
    IF q = <<>> THEN TRUE
    ELSE x = q[Len(q)] \/ \A i \in 1..Len(q) : q[i] = q[1]

\* analyzer.add_interaction(x), called on its own
AnalyzerAdd(x) ==
    /\ SampleAllowed(interactions, x)
    /\ LET r == AddInteraction(interactions, typing_baseline, mouse_baseline, x)
       IN /\ interactions' = r[1]
          /\ typing_baseline' = r[2]
          /\ mouse_baseline' = r[3]
    /\ UNCHANGED <<now, inputVars, alertVars, stateVars, running, loopVars,
                   listenVars, handlerVars, histVars>>

NextAnalyzer == \E x \in SampleInputs : AnalyzerAdd(x)

SpecAnalyzer == Init /\ [][NextAnalyzer]_vars

\* The alerts create_alert is asked for through triggerAlert: a FOCUS_DROP at
\* every focus level from 0.00 to 1.00, a BREAK_SUGGESTION at the ends and
\* on both sides of the split.
CreateInputs ==
    {<<"focus_drop", f>> : f \in 0..100}
        \cup {<<"break_suggestion", f>> : f \in {0, 60, 61, 100}}

CreateRequest(h) == \E in \in CreateInputs : TriggerBegin(h, in[1], in[2])

NextCreate ==
    \/ \E h \in Handlers : Budget(MaxCreateRequests) /\ CreateRequest(h)
    \/ \E h \in Handlers : TriggerAssign(h)

SpecCreate == Init /\ [][NextCreate]_vars

\* The requests of a run in which the engine, once started, stays running:
\* start, and respond with SNOOZE.
LiveRequest(h) ==
    \/ StartCheck(h)
    \/ (\E id \in KnownIds : RespondBegin(h, id, "snooze"))

\* The run may still receive a request or a connection.
Arriving == now < LiveQuiet

NextLive ==
    \/ Tick(MaxLiveTime)
    \/ \E k \in Threads : Loop(k)
    \/ \E k \in Threads :
          \/ ListenerBind(k) \/ ListenerTest(k) \/ ListenerTimeout(k)
          \/ ListenerSetUntil(k)
          \/ (Arriving /\ ConnBudget(MaxLiveConnections)
                /\ \E m \in Payloads : ListenerRecv(k, m))
    \/ \E h \in Handlers :
          Arriving /\ Budget(MaxLiveRequests) /\ LiveRequest(h)
    \/ \E h \in Handlers :
          StartSpawn(h) \/ RespondSetUntil(h) \/ RespondHandle(h)

\* Time passes, and every thread that can take a step takes one: the loop,
\* the listener and a handler inside a request are threads of the
\* interpreter, which schedules each of them again and again.  Nothing
\* obliges a request or a connection to arrive.
Fairness ==
    /\ WF_vars(Tick(MaxLiveTime))
    /\ \A k \in Threads : WF_vars(Loop(k))
    /\ \A k \in Threads :
          WF_vars(ListenerBind(k) \/ ListenerTest(k) \/ ListenerSetUntil(k))
    /\ \A h \in Handlers :
          WF_vars(StartSpawn(h) \/ RespondSetUntil(h) \/ RespondHandle(h))

SpecLive == Init /\ [][NextLive]_vars /\ Fairness

NextPush ==
    \/ Tick(MaxLifeTime)
    \/ \E h \in Handlers : Budget(MaxPushRequests) /\ AlertRequest(h)
    \/ \E h \in Handlers :
          RespondSetUntil(h) \/ RespondHandle(h) \/ TriggerAssign(h)
    \/ \E in \in PushInputs, link \in LinkStates : PushCall(in, link)

SpecPush == Init /\ [][NextPush]_vars

(***************************************************************************)
(* Properties.                                                             *)
(***************************************************************************)
\* The times at which loop k raised an alert, and the latest of them.
RaisedBy(k) == {r[2] : r \in {x \in raised : x[1] = k}}
Latest(S) == CHOOSE t \in S : \A u \in S : u <= t

\* Loop k finishes get_and_reset_metrics and scores the history in this step.
Scores(k) ==
    /\ lpc[k] = "drain_reset"
    /\ lpc'[k] # "drain_reset"
    /\ Len(interactions') >= MinSamples

\* C1: a cycle of a loop that scores below 0.6 goes on to the snooze test
\* exactly when more than 120 seconds have passed since the cycle in which
\* this loop last raised an alert, and otherwise ends without an alert; when
\* it goes on and the engine is not snoozed, it creates the alert; so two
\* alerts of one loop are always more than 120 seconds apart.
C1_Cooldown ==
    /\ [](\A k \in Threads : \A t1, t2 \in RaisedBy(k) :
            t1 < t2 => t2 - t1 > 120)
    /\ [][\A k \in Threads :
            /\ (Scores(k) /\ focus_level' < 60 /\ RaisedBy(k) # {})
                 => IF now - Latest(RaisedBy(k)) > 120
                    THEN lpc'[k] = "chk_snoozed"
                    ELSE lpc'[k] = "sleep" /\ alert_queue' = alert_queue
            /\ (lpc[k] = "chk_snoozed" /\ lpc'[k] # "chk_snoozed" /\ ~is_snoozed)
                 => lpc'[k] = "create"
            /\ (lpc[k] = "create" /\ lpc'[k] # "create")
                 => /\ <<k, now>> \in raised'
                    /\ Len(alert_queue') = Len(alert_queue) + 1
         ]_vars

\* C1's case: one loop has raised two alerts, the second 180 seconds after
\* the first.
C1_Witness ==
    \E k \in Threads : \E t \in RaisedBy(k) : t + 180 \in RaisedBy(k)

\* C2: no loop creates an alert within 5 minutes of the time at which the
\* listener accepted a SNOOZE command, unless a cycle with focus above 0.8
\* has cleared the snooze since.
C2_SnoozeWindow ==
    [][\A k \in Threads :
          (lpc[k] = "create" /\ lpc'[k] = "assign")
            => ~(snoozed_at # None /\ now <= Val(snoozed_at) + 300)
      ]_vars

\* C3: no two alerts ever created share an id.
C3_UniqueIds ==
    \A i, j \in 1..Len(alert_queue) :
        i # j => alert_queue[i].id # alert_queue[j].id

\* C4: whenever is_snoozed is true, snooze_until is set and no snooze is
\* between its two writes (so snooze_until is the deadline of the snooze
\* that set the flag).
C4_SnoozeAtomic ==
    is_snoozed =>
        /\ snooze_until # None
        /\ \A k \in Threads : spc[k] # "set_until"
        /\ \A h \in Handlers : hpc[h] # "resp_until"

\* C5: whenever no callback and no drain is in progress, the keystrokes of
\* the drained samples plus keystroke_count equal the key presses delivered,
\* and the same for the clicks.
C5_NoEventLost ==
    (kpc = "idle" /\ mpc = "idle" /\ \A k \in Threads : lpc[k] # "drain_reset")
        => /\ keys_drained + keystroke_count = keys_delivered
           /\ clicks_drained + mouse_clicks = clicks_delivered

\* C6: a loop ends only at its test of the running signal, with the signal
\* cleared by a stop that came after the loop's start; a cycle that fails
\* (the comparison with an unset snooze_until, the statement that pushes to
\* the device) ends in the 10-second sleep with the loop alive; and a loop
\* that wakes while the signal is set, from either sleep and not before its
\* time, runs a further cycle.
C6_LoopSurvives ==
    [][\A k \in Threads :
          /\ (lpc'[k] = "done" /\ lpc[k] # "done")
               => /\ lpc[k] \in {"init", "sleep", "backoff"}
                  /\ ~running
                  /\ k \in stopped
          /\ (\/ lpc[k] = "assign" /\ lpc'[k] # "assign"
              \/ lpc[k] = "chk_until" /\ lpc'[k] # "chk_until" /\ snooze_until = None)
               => lpc'[k] = "backoff" /\ wake'[k] = now + 10
          /\ (lpc[k] \in {"sleep", "backoff"} /\ lpc'[k] # lpc[k])
               => /\ now >= wake[k]
                  /\ running => lpc'[k] = "drain_read"
      ]_vars

\* C6's case: a loop is in a further cycle one clock instant after the cycle
\* in which it raised an alert and the push failed.
C6_Witness ==
    \E k \in Threads :
        /\ lpc[k] = "drain_read"
        /\ running
        /\ Latest(RaisedBy(k) \cup {-1}) = now - 60

\* C7: a loop that was started when stop was called ends when it next wakes
\* from its sleep and tests the running signal, and its listener ends,
\* releasing the port, when it next tests the signal after a connection.
C7_StopEndsThreads ==
    [][\A k \in stopped :
          /\ (lpc[k] \in {"sleep", "backoff"} /\ lpc'[k] # lpc[k])
               => lpc'[k] = "done"
          /\ (spc[k] = "test" /\ spc'[k] # "test")
               => spc'[k] = "done" /\ k \notin port'
      ]_vars

\* C8: a start request that finds monitoring_active set returns
\* "already_running" and changes nothing else: no thread is born, no sampler
\* is started, and the state and the running signal stay as they were.
C8_StartIdempotent ==
    [][\A h \in Handlers :
          (StartCheck(h) /\ monitoring_active)
            => /\ h_result'[h] = "already_running"
               /\ hpc'[h] = "idle"
               /\ UNCHANGED <<inputVars, analyzerVars, alertVars, stateVars,
                              running, loopVars, listenVars>>
      ]_vars

\* C8's case: a start has returned "already_running" while a loop and a
\* listener of the earlier start live.
C8_Witness ==
    \E h \in Handlers :
        /\ h_result[h] = "already_running"
        /\ monitoring_active
        /\ Cardinality({k \in Threads : lpc[k] # "unborn"}) = 1

\* The received texts whose line is the SNOOZE token: the token alone, and
\* the token with its line end.
SnoozeLines == {<<"SNOOZE">>, <<" ", "SNOOZE", "\n">>}

C10_RecoveryClears ==
    [][\A k \in Threads :
          /\ (Scores(k) /\ focus_level' > 80)
               => lpc'[k] = "recover" /\ is_snoozed' = is_snoozed
          /\ (lpc[k] = "recover" /\ lpc'[k] # "recover")
               => /\ ~is_snoozed'
                  /\ snooze_until' = snooze_until
                  /\ lpc'[k] = "sleep"
          /\ (Scores(k) /\ focus_level' >= 60 /\ focus_level' <= 80)
               => lpc'[k] = "sleep" /\ is_snoozed' = is_snoozed
      ]_vars

\* C10's case: a cycle has scored above 0.8 while is_snoozed is set and the
\* snooze deadline has not passed.
C10_Witness ==
    \E k \in Threads :
        /\ lpc[k] = "recover"
        /\ is_snoozed
        /\ snooze_until # None
        /\ now < Val(snooze_until)

\* C11: the statements that follow create_alert in a raising cycle hand
\* exactly one payload to the device push, with vibrate = true and snooze
\* equal to snooze_feature_enabled, and leave the loop at its normal sleep.
C11_PushAfterAlert ==
    [][\A k \in Threads :
          (lpc[k] = "assign" /\ lpc'[k] # "assign")
            => /\ lpc'[k] = "sleep"
               /\ Len(pushes') = Len(pushes) + 1
               /\ pushes'[Len(pushes')].payload.vibrate
               /\ pushes'[Len(pushes')].payload.snooze = snooze_feature_enabled
      ]_vars

\* C12: create_alert in a loop's cycle adds exactly one alert, of kind
\* FOCUS_DROP, to the active set; the statements after it make that alert
\* the current alert, set is_snoozed to false and set the loop's
\* last_alert_time to now; every other step of a cycle leaves the active
\* set, the current alert and last_alert_time as they were.
C12_RaiseEffects ==
    [][\A k \in Threads :
          /\ (lpc[k] = "create" /\ lpc'[k] = "assign")
               => /\ Cardinality(DOMAIN active_alerts')
                        = Cardinality(DOMAIN active_alerts) + 1
                  /\ Val(l_alert'[k]).type = "focus_drop"
                  /\ Val(l_alert'[k]).id \in DOMAIN active_alerts'
                  /\ active_alerts'[Val(l_alert'[k]).id] = Val(l_alert'[k])
          /\ (lpc[k] = "assign" /\ lpc'[k] # "assign")
               => /\ current_alert' = l_alert[k]
                  /\ ~is_snoozed'
                  /\ last_alert_time'[k] = now
                  /\ active_alerts' = active_alerts
          /\ (lpc[k] \notin {"unborn", "init", "create", "assign"} /\ lpc'[k] # lpc[k])
               => /\ active_alerts' = active_alerts
                  /\ current_alert' = current_alert
                  /\ last_alert_time'[k] = last_alert_time[k]
      ]_vars

\* The ids of the alerts created so far.
CreatedIds == {alert_queue[i].id : i \in 1..Len(alert_queue)}

\* Handler h is at handle_response with the SNOOZE response for id.
SnoozeAt(h, id) == hpc[h] = "resp_handle" /\ h_arg[h] = Some(id)

\* C13: a respond whose id is not in the active set when handle_response
\* runs returns the "not found" error and leaves the active set as it was,
\* for DISMISS, TAKE_BREAK and SNOOZE alike, whether the id was never issued
\* or belongs to an alert removed earlier.
C13_UnknownIdRejected ==
    [][\A h \in Handlers : \A id \in KnownIds :
          id \notin DOMAIN active_alerts =>
            /\ \A r \in {"dismiss", "take_break"} :
                  RespondBegin(h, id, r)
                    => /\ h_result'[h] = "error: Alert not found"
                       /\ active_alerts' = active_alerts
            /\ (SnoozeAt(h, id) /\ hpc'[h] # "resp_handle")
                    => /\ h_result'[h] = "error: Alert not found"
                       /\ active_alerts' = active_alerts
      ]_vars

\* C13's case: a SNOOZE response is at handle_response with the id of an
\* alert that was created and is no longer in the active set, after an
\* earlier respond has returned "not found".
C13_Witness ==
    \E h \in Handlers : \E id \in CreatedIds \ DOMAIN active_alerts :
        /\ SnoozeAt(h, id)
        /\ h_result[h] = "error: Alert not found"

\* C14: for an id in the active set, SNOOZE returns "snoozed" and leaves the
\* active set as it was; DISMISS and TAKE_BREAK return "dismissed" and
\* "break_taken" and remove that id and nothing else.
C14_ResponseEffects ==
    [][\A h \in Handlers : \A id \in DOMAIN active_alerts :
          /\ (SnoozeAt(h, id) /\ hpc'[h] # "resp_handle")
               => /\ h_result'[h] = "snoozed"
                  /\ active_alerts' = active_alerts
          /\ \A r \in {"dismiss", "take_break"} :
                RespondBegin(h, id, r)
                  => /\ h_result'[h] = (IF r = "dismiss" THEN "dismissed"
                                        ELSE "break_taken")
                     /\ DOMAIN active_alerts' = DOMAIN active_alerts \ {id}
                     /\ \A j \in DOMAIN active_alerts' :
                           active_alerts'[j] = active_alerts[j]
      ]_vars

\* C14's case: a DISMISS has removed one of two active alerts and the other
\* is still there.
C14_Witness ==
    \E h \in Handlers :
        /\ h_result[h] = "dismissed"
        /\ Cardinality(DOMAIN active_alerts) = 1
        /\ Cardinality(CreatedIds) = 2

NoCreateInFlight ==
    /\ \A k \in Threads : lpc[k] # "assign"
    /\ \A h \in Handlers : hpc[h] # "trig_assign"

\* C16: whenever no alert-creating operation is in flight and an alert has
\* been created, current_alert is the alert created last (the last one put
\* on alert_queue).
C16_CurrentIsLatest ==
    (NoCreateInFlight /\ alert_queue # <<>>)
        => current_alert = Some(alert_queue[Len(alert_queue)])

\* The sum of one field over the first n samples of a history.
RECURSIVE SumField(_, _, _)
SumField(q, n, field) ==
    IF n = 0 THEN 0 ELSE q[n][field] + SumField(q, n - 1, field)

\* C17: the first 10 calls of add_interaction leave both baselines unset;
\* the 11th sets them to the means of keystroke_count and of
\* mouse_movement_distance over the 11 samples; every later call leaves
\* them as they are.
C17_CalibratedOnce ==
    [][\A x \in SampleInputs : AnalyzerAdd(x) =>
          /\ Len(interactions) < 10
               => typing_baseline' = None /\ mouse_baseline' = None
          /\ Len(interactions) = 10
               => /\ typing_baseline' =
                        Some([sum |-> SumField(interactions', 11, "keystroke_count"),
                              n |-> 11])
                  /\ mouse_baseline' =
                        Some([sum |-> SumField(interactions', 11,
                                               "mouse_movement_distance"),
                              n |-> 11])
          /\ Len(interactions) > 10
               => /\ typing_baseline # None
                  /\ typing_baseline' = typing_baseline
                  /\ mouse_baseline' = mouse_baseline
      ]_vars

\* C17's case: the baseline was calibrated to a mean of 0, and the history
\* is full of later samples, none of them one of the 11 it was computed from.
C17_Witness ==
    /\ typing_baseline = Some([sum |-> 0, n |-> 11])
    /\ Len(interactions) = 60
    /\ \A i \in 1..60 : interactions[i].keystroke_count > 0

\* The sum of the first n elements of a sequence of numbers.
RECURSIVE SumFirst(_, _)
SumFirst(q, n) == IF n = 0 THEN 0 ELSE q[n] + SumFirst(q, n - 1)

\* C18: the alert create_alert builds for focus level f (in hundredths) has
\* intensity 100 - f; below an intensity of 40 its pattern is
\* [150, 100, 150] and its duration 400 ms, from 40 on its pattern is
\* [200, 100, 200, 100, 200] and its duration 800 ms; the duration is the sum
\* of the pattern.
C18_PatternByIntensity ==
    [][\A h \in Handlers : \A in \in CreateInputs :
          TriggerBegin(h, in[1], in[2]) =>
            LET a == Val(h_arg'[h]) IN
            /\ a.intensity = 100 - in[2]
            /\ a.intensity < 40
                 => a.pattern = <<150, 100, 150>> /\ a.duration_ms = 400
            /\ a.intensity >= 40
                 => /\ a.pattern = <<200, 100, 200, 100, 200>>
                    /\ a.duration_ms = 800
            /\ a.duration_ms = SumFirst(a.pattern, Len(a.pattern))
            /\ alert_queue'[Len(alert_queue')] = a
      ]_vars

\* C18's case: alerts were created on both sides of the split, at focus
\* levels 0.60 (intensity 0.40, long pattern) and 0.61 (short pattern).
C18_Witness ==
    /\ Len(alert_queue) = 2
    /\ alert_queue[1].intensity = 40 /\ alert_queue[1].duration_ms = 800
    /\ alert_queue[2].intensity = 39 /\ alert_queue[2].duration_ms = 400

\* C19: a loop that has already run a cycle begins another one only when no
\* loop newer than itself has been started, so that two loops never run
\* cycles side by side.
C19_SingleLoop ==
    [][\A k \in Threads :
          (lpc[k] \in {"sleep", "backoff"} /\ lpc'[k] = "drain_read")
            => \A j \in Threads : j > k => lpc[j] = "unborn"
      ]_vars

\* C20: a respond that is rejected writes nothing to the engine state: not
\* when its response kind is unknown, and not at any step of a respond whose
\* id is not in the active set, so that a SNOOZE for such an id leaves
\* is_snoozed and snooze_until as they were.
C20_RejectedRespondInert ==
    [][\A h \in Handlers :
          /\ (\E id \in KnownIds : RespondBegin(h, id, "ignore"))
                => UNCHANGED stateVars
          /\ (\E r \in Responses : RespondBegin(h, UnknownId, r))
                => UNCHANGED stateVars
          /\ (hpc[h] \in {"resp_until", "resp_handle"}
                /\ h_arg[h] = Some(UnknownId) /\ hpc'[h] # hpc[h])
                => UNCHANGED stateVars
      ]_vars

\* C21: in a run where no request and no connection arrives from the
\* instant LiveQuiet on, if at that instant or later the engine is running
\* and the published score is below 0.6, then an alert is raised at
\* LiveQuiet or later, or a later cycle scores 0.6 or more; and a cycle that
\* reaches the deadline test of a snoozed engine after the deadline goes on
\* to create the alert, which is then recorded as raised in that cycle.
C21_AlertEventually ==
    /\ (now >= LiveQuiet /\ running /\ focus_level < 60)
          ~> \/ \E r \in raised : r[2] >= LiveQuiet
             \/ focus_level >= 60
    /\ [][\A k \in Threads :
            /\ (lpc[k] = "chk_until" /\ lpc'[k] # "chk_until"
                  /\ snooze_until # None /\ now > Val(snooze_until))
                 => lpc'[k] = "create"
            /\ (lpc[k] = "create" /\ lpc'[k] # "create")
                 => <<k, now>> \in raised'
         ]_vars

\* C21's case: the listener accepted a SNOOZE, focus stayed below 0.6, and
\* an alert was raised more than 300 s after the SNOOZE.
C21_Witness ==
    /\ snoozed_at # None
    /\ focus_level < 60
    /\ \E r \in raised : r[2] > Val(snoozed_at) + 300

====
